---- MODULE Spec2Model ----
(***************************************************************************)
(* The REST resource "animal" of tide-basic-crud: the five handlers of     *)
(* RestEntity (src/main.rs) and the five handlers of the controllers /     *)
(* handlers pair (src/controllers/animal.rs, src/handlers/animal.rs) over  *)
(* the one table `animals`, and the pool of connections they share.        *)
(***************************************************************************)
EXTENDS Integers, Sequences, FiniteSets, TLC

VARIABLES
    table,      \* the rows of table animals: a set of [id, name, weight, diet]
    last,       \* the request just served and its response, until the client takes it
    written,    \* per identifier the client holds, what it last wrote to it
    nLive,      \* creates answered 201 less deletes answered 204, so far
    clients,    \* concurrent requests: per client, where its request is and its exchange
    inUse       \* connections of the pool that are checked out

vars == <<table, last, written, nLive, clients, inUse>>

----------------------------------------------------------------------------
(* Bounds of the model. *)

NumIds == 2
NumClients == 2
ExtraClients == 1

\* PgPoolOptions::new().max_connections(5)
MaxConnections == 5

(* Status codes the handlers produce. *)
StatusOk == 200
StatusCreated == 201
StatusNoContent == 204
StatusNotFound == 404
StatusConflict == 409
StatusUnprocessable == 422
StatusInternal == 500

----------------------------------------------------------------------------
(* Values. *)

Ids == 1..NumIds
Names == {"Rex", "Rex2"}
Weights == {70, 500}
Diets == {"carnivorous"}

Fields == {"id", "name", "weight", "diet"}

\* AnimalRequest { name, weight, diet }
AnimalRequest == [name : Names, weight : Weights, diet : Diets]

\* The payloads the clients of the model send.
Payloads ==
    {[name |-> "Rex", weight |-> 500, diet |-> "carnivorous"],
     [name |-> "Rex2", weight |-> 500, diet |-> "carnivorous"],
     [name |-> "Rex", weight |-> 70, diet |-> "carnivorous"]}

\* Animal { id, name, weight, diet }
Animal == [id : Ids, name : Names, weight : Weights, diet : Diets]

\* The text of the :id path parameter: a UUID's text, or something else.
PathParams ==
    {[valid |-> TRUE, uuid |-> i] : i \in Ids} \cup {[valid |-> FALSE, uuid |-> 0]}

NoParam == [valid |-> FALSE, uuid |-> 0]

\* A request body: bytes that are no JSON, or a JSON object holding the
\* members named in `has`.
NoBody == [json |-> FALSE, has |-> {}, id |-> 0, name |-> "Rex", weight |-> 70,
           diet |-> "carnivorous"]

JsonObject(has, id, p) ==
    [json |-> TRUE, has |-> has,
     id |-> IF "id" \in has THEN id ELSE 0,
     name |-> IF "name" \in has THEN p.name ELSE "Rex",
     weight |-> IF "weight" \in has THEN p.weight ELSE 70,
     diet |-> IF "diet" \in has THEN p.diet ELSE "carnivorous"]

Bodies ==
    {NoBody}
    \cup {JsonObject(Fields, i, p) : i \in Ids, p \in Payloads}
    \cup {JsonObject(Fields \ {"id"}, 0, p) : p \in Payloads}
    \cup {JsonObject(Fields \ {f}, 1, CHOOSE p \in Payloads : TRUE) :
            f \in {"name", "weight", "diet"}}

Faults == {"none", "unavailable", "internal"}

----------------------------------------------------------------------------
(* Parsing of the request. *)

\* Uuid::parse_str(req.param("id")?)
ParseUuid(param) == [ok |-> param.valid, uuid |-> param.uuid]

\* req.body_json::<AnimalRequest>(): serde takes the three members and
\* skips any other (the struct does not deny unknown fields).
BodyJsonAnimalRequest(body) ==
    [ok |-> body.json /\ {"name", "weight", "diet"} \subseteq body.has,
     value |-> [name |-> body.name, weight |-> body.weight, diet |-> body.diet]]

\* req.body_json::<Animal>(): all four members are required.
BodyJsonAnimal(body) ==
    [ok |-> body.json /\ Fields \subseteq body.has,
     value |-> [id |-> body.id, name |-> body.name, weight |-> body.weight,
                diet |-> body.diet]]

----------------------------------------------------------------------------
(* The store.  A statement either fails as a whole (env.fault) and leaves   *)
(* the table alone, or runs as one atomic step on the table.               *)

TableIds(tbl) == {r.id : r \in tbl}

MakeRow(id, p) == [id |-> id, name |-> p.name, weight |-> p.weight, diet |-> p.diet]

StmtOk(tbl, rows) == [err |-> "none", table |-> tbl, rows |-> rows]
StmtErr(tbl, e) == [err |-> e, table |-> tbl, rows |-> {}]

\* The key of table animals: column id is unique.
UniqueViolation(tbl, id) == id \in TableIds(tbl)

\* The column default that gives a row inserted without an id its id.
GeneratedIds(tbl) == Ids \ TableIds(tbl)

\* InsertGenerated with diet bound where name belongs.
InsertGenerated_SwapBind(tbl, p, env) ==
    IF env.fault # "none" THEN StmtErr(tbl, env.fault)
    ELSE LET row == [id |-> env.gen, name |-> p.diet, weight |-> p.weight,
                     diet |-> p.diet]
         IN StmtOk(tbl \cup {row}, {row})

\* INSERT INTO animals (name, weight, diet) VALUES ($1, $2, $3) returning ...
InsertGenerated(tbl, p, env) ==
    IF env.fault # "none" THEN StmtErr(tbl, env.fault)
    ELSE LET row == MakeRow(env.gen, p) IN StmtOk(tbl \cup {row}, {row})

\* InsertWithId as an upsert: a row of the same id is overwritten.
InsertWithId_Upsert(tbl, a, env) ==
    IF env.fault # "none" THEN StmtErr(tbl, env.fault)
    ELSE LET row == MakeRow(a.id, a)
         IN StmtOk({r \in tbl : r.id # a.id} \cup {row}, {row})

\* INSERT INTO animals (id, name, weight, diet) VALUES ($1, $2, $3, $4) returning ...
InsertWithId(tbl, a, env) ==
    IF env.fault # "none" THEN StmtErr(tbl, env.fault)
    ELSE IF UniqueViolation(tbl, a.id) THEN StmtErr(tbl, "conflict")
    ELSE LET row == MakeRow(a.id, a) IN StmtOk(tbl \cup {row}, {row})

\* SELECT id, name, weight, diet FROM animals [ORDER BY weight]
SelectAll(tbl, env) ==
    IF env.fault # "none" THEN StmtErr(tbl, env.fault) ELSE StmtOk(tbl, tbl)

\* SELECT id, name, weight, diet from animals WHERE id = $1
SelectById(tbl, id, env) ==
    IF env.fault # "none" THEN StmtErr(tbl, env.fault)
    ELSE StmtOk(tbl, {r \in tbl : r.id = id})

\* UpdateById as an upsert: with no row of that id, one is inserted.
UpdateById_Upsert(tbl, id, p, env) ==
    IF env.fault # "none" THEN StmtErr(tbl, env.fault)
    ELSE LET hit == {r \in tbl : r.id = id}
             new == {MakeRow(id, p)}
         IN StmtOk((tbl \ hit) \cup new, new)

\* UpdateById with weight left out of the SET list.
UpdateById_KeepWeight(tbl, id, p, env) ==
    IF env.fault # "none" THEN StmtErr(tbl, env.fault)
    ELSE LET hit == {r \in tbl : r.id = id}
             new == {[id |-> r.id, name |-> p.name, weight |-> r.weight,
                      diet |-> p.diet] : r \in hit}
         IN StmtOk((tbl \ hit) \cup new, new)

\* UPDATE animals SET name = $2, weight = $3, diet = $4 WHERE id = $1 returning ...
UpdateById(tbl, id, p, env) ==
    IF env.fault # "none" THEN StmtErr(tbl, env.fault)
    ELSE LET hit == {r \in tbl : r.id = id}
             new == {MakeRow(r.id, p) : r \in hit}
         IN StmtOk((tbl \ hit) \cup new, new)

\* DeleteById without its WHERE clause: every row goes.
DeleteById_NoWhere(tbl, id, env) ==
    IF env.fault # "none" THEN StmtErr(tbl, env.fault)
    ELSE StmtOk({}, {r \in tbl : r.id = id})

\* delete from animals WHERE id = $1 returning id
DeleteById(tbl, id, env) ==
    IF env.fault # "none" THEN StmtErr(tbl, env.fault)
    ELSE LET hit == {r \in tbl : r.id = id} IN StmtOk(tbl \ hit, hit)

\* The orders in which a SELECT may return the rows of `rows`.
RowOrders(rows) ==
    {s \in [1..Cardinality(rows) -> rows] : \A i, j \in DOMAIN s : i # j => s[i] # s[j]}

\* ORDER BY weight
OrderedByWeight(s) == \A i, j \in DOMAIN s : i < j => s[i].weight <= s[j].weight

----------------------------------------------------------------------------
(* How a handler ends.  `queried` tells whether it ran its statement, and   *)
(* so whether it took a connection of the pool.                            *)

\* Ok(res): the handler returns a response.
Respond(status, out, tbl) ==
    [done |-> TRUE, status |-> status, out |-> out, table |-> tbl, queried |-> TRUE]

\* body_json().await? fails before the statement: tide answers with the
\* status of the error, 422 for a body that does not deserialize.
BodyRejected(tbl) ==
    [done |-> TRUE, status |-> StatusUnprocessable, out |-> <<>>, table |-> tbl,
     queried |-> FALSE]

\* Uuid::parse_str(..).unwrap() on an Err: the handler panics and returns
\* no response.
Panicked(tbl) ==
    [done |-> FALSE, status |-> 0, out |-> <<>>, table |-> tbl, queried |-> FALSE]

\* `.await?` on a sqlx error in RestEntity: tide::Error of status 500.
IntoTideError(err) == StatusInternal

\* `.map_err(|e| Error::new(409, e))` in handlers::animal.
MapErr409(err) == StatusConflict

\* The row of an Option<Animal> / fetch_one as the JSON body.
OneRow(rows) == IF rows = {} THEN <<>> ELSE <<CHOOSE r \in rows : TRUE>>

----------------------------------------------------------------------------
(* RestEntity, src/main.rs. *)

RestEntity_create(req, env, tbl) ==
    LET dino == BodyJsonAnimalRequest(req.body) IN
    IF ~dino.ok THEN BodyRejected(tbl)
    ELSE LET r == InsertGenerated(tbl, dino.value, env) IN
         IF r.err # "none" THEN Respond(IntoTideError(r.err), <<>>, r.table)
         ELSE Respond(StatusCreated, OneRow(r.rows), r.table)

RestEntity_list(req, env, tbl) ==
    LET r == SelectAll(tbl, env) IN
    IF r.err # "none" THEN Respond(IntoTideError(r.err), <<>>, r.table)
    ELSE Respond(StatusOk, env.order, r.table)

RestEntity_get(req, env, tbl) ==
    LET id == ParseUuid(req.path) IN
    IF ~id.ok THEN Panicked(tbl)
    ELSE LET r == SelectById(tbl, id.uuid, env) IN
         IF r.err # "none" THEN Respond(IntoTideError(r.err), <<>>, r.table)
         ELSE IF r.rows = {} THEN Respond(StatusNotFound, <<>>, r.table)
         ELSE Respond(StatusOk, OneRow(r.rows), r.table)

RestEntity_update(req, env, tbl) ==
    LET animal == BodyJsonAnimalRequest(req.body)
        id == ParseUuid(req.path)
    IN
    IF ~animal.ok THEN BodyRejected(tbl)
    ELSE IF ~id.ok THEN Panicked(tbl)
    ELSE LET r == UpdateById(tbl, id.uuid, animal.value, env) IN
         IF r.err # "none" THEN Respond(IntoTideError(r.err), <<>>, r.table)
         ELSE IF r.rows = {} THEN Respond(StatusNotFound, <<>>, r.table)
         ELSE Respond(StatusOk, OneRow(r.rows), r.table)

\* RestEntity::delete answering 204 whether or not a row was returned.
RestEntity_delete_NoMatch(req, env, tbl) ==
    LET id == ParseUuid(req.path) IN
    IF ~id.ok THEN Panicked(tbl)
    ELSE LET r == DeleteById(tbl, id.uuid, env) IN
         IF r.err # "none" THEN Respond(IntoTideError(r.err), <<>>, r.table)
         ELSE Respond(StatusNoContent, <<>>, r.table)

RestEntity_delete(req, env, tbl) ==
    LET id == ParseUuid(req.path) IN
    IF ~id.ok THEN Panicked(tbl)
    ELSE LET r == DeleteById(tbl, id.uuid, env) IN
         IF r.err # "none" THEN Respond(IntoTideError(r.err), <<>>, r.table)
         ELSE IF r.rows = {} THEN Respond(StatusNotFound, <<>>, r.table)
         ELSE Respond(StatusNoContent, <<>>, r.table)

----------------------------------------------------------------------------
(* handlers::animal, src/handlers/animal.rs: every sqlx error becomes a    *)
(* tide::Error of status 409.                                              *)

handlers_result(r) ==
    [err |-> r.err, status |-> IF r.err = "none" THEN 0 ELSE MapErr409(r.err),
     table |-> r.table, rows |-> r.rows]

handlers_create(animal, env, tbl) == handlers_result(InsertWithId(tbl, animal, env))

handlers_list(env, tbl) == handlers_result(SelectAll(tbl, env))

handlers_get(id, env, tbl) == handlers_result(SelectById(tbl, id, env))

handlers_delete(id, env, tbl) == handlers_result(DeleteById(tbl, id, env))

\* handlers::update addressing the row by the body's id.
handlers_update_BodyId(id, animal, env, tbl) ==
    handlers_result(UpdateById(tbl, animal.id, animal, env))

handlers_update(id, animal, env, tbl) ==
    handlers_result(UpdateById(tbl, id, animal, env))

(* controllers::animal, src/controllers/animal.rs. *)

controllers_create(req, env, tbl) ==
    LET animal == BodyJsonAnimal(req.body) IN
    IF ~animal.ok THEN BodyRejected(tbl)
    ELSE LET r == handlers_create(animal.value, env, tbl) IN
         IF r.err # "none" THEN Respond(r.status, <<>>, r.table)
         ELSE Respond(StatusCreated, OneRow(r.rows), r.table)

controllers_list(req, env, tbl) ==
    LET r == handlers_list(env, tbl) IN
    IF r.err # "none" THEN Respond(r.status, <<>>, r.table)
    ELSE Respond(StatusOk, env.order, r.table)

controllers_get(req, env, tbl) ==
    LET id == ParseUuid(req.path) IN
    IF ~id.ok THEN Panicked(tbl)
    ELSE LET r == handlers_get(id.uuid, env, tbl) IN
         IF r.err # "none" THEN Respond(r.status, <<>>, r.table)
         ELSE IF r.rows = {} THEN Respond(StatusNotFound, <<>>, r.table)
         ELSE Respond(StatusOk, OneRow(r.rows), r.table)

controllers_update(req, env, tbl) ==
    LET animal == BodyJsonAnimal(req.body)
        id == ParseUuid(req.path)
    IN
    IF ~animal.ok THEN BodyRejected(tbl)
    ELSE IF ~id.ok THEN Panicked(tbl)
    ELSE LET r == handlers_update(id.uuid, animal.value, env, tbl) IN
         IF r.err # "none" THEN Respond(r.status, <<>>, r.table)
         ELSE IF r.rows = {} THEN Respond(StatusNotFound, <<>>, r.table)
         ELSE Respond(StatusOk, OneRow(r.rows), r.table)

controllers_delete(req, env, tbl) ==
    LET id == ParseUuid(req.path) IN
    IF ~id.ok THEN Panicked(tbl)
    ELSE LET r == handlers_delete(id.uuid, env, tbl) IN
         IF r.err # "none" THEN Respond(r.status, <<>>, r.table)
         ELSE IF r.rows = {} THEN Respond(StatusNotFound, <<>>, r.table)
         ELSE Respond(StatusNoContent, <<>>, r.table)

----------------------------------------------------------------------------
(* Routing: register_rest_entity binds the collection path to list and     *)
(* create and the item path to get, update and delete.                     *)

Route(req, env, tbl) ==
    IF req.impl = "rest" THEN
        CASE req.op = "create" -> RestEntity_create(req, env, tbl)
          [] req.op = "list" -> RestEntity_list(req, env, tbl)
          [] req.op = "get" -> RestEntity_get(req, env, tbl)
          [] req.op = "update" -> RestEntity_update(req, env, tbl)
          [] req.op = "delete" -> RestEntity_delete(req, env, tbl)
    ELSE
        CASE req.op = "create" -> controllers_create(req, env, tbl)
          [] req.op = "list" -> controllers_list(req, env, tbl)
          [] req.op = "get" -> controllers_get(req, env, tbl)
          [] req.op = "update" -> controllers_update(req, env, tbl)
          [] req.op = "delete" -> controllers_delete(req, env, tbl)

Request(impl, op, path, body) == [impl |-> impl, op |-> op, path |-> path, body |-> body]

\* What the store may do with the statement of `req` on table `tbl`: fail,
\* and on success the id it generates and the order it returns rows in.
Envs(req, tbl) ==
    {[fault |-> f, gen |-> g, order |-> o] :
        f \in IF Route(req, [fault |-> "none", gen |-> 0, order |-> <<>>], tbl).queried
              THEN Faults ELSE {"none"},
        g \in IF req.impl = "rest" /\ req.op = "create" THEN GeneratedIds(tbl) ELSE {0},
        o \in IF req.op # "list" THEN {<<>>}
              ELSE IF req.impl = "rest"
                   THEN {s \in RowOrders(tbl) : OrderedByWeight(s)}
                   ELSE RowOrders(tbl)}

----------------------------------------------------------------------------
(* What a client that keeps the requests it sent and the responses it got  *)
(* knows of the table (the tests of src/main.rs compare against this).     *)

Put(f, k, v) == [x \in DOMAIN f \cup {k} |-> IF x = k THEN v ELSE f[x]]

\* What the client holds of an identifier it saw deleted.
Gone == [name |-> "", weight |-> 0, diet |-> "", by |-> "delete"]

\* The identifiers the client created and has not deleted.
Live(w) == {i \in DOMAIN w : w[i].by # "delete"}

Wrote(req, by) ==
    [name |-> req.body.name, weight |-> req.body.weight, diet |-> req.body.diet,
     by |-> by]

ObserveWritten(w, req, res) ==
    IF ~res.done THEN w
    ELSE IF req.op = "create" /\ res.status = StatusCreated
         THEN Put(w, res.out[1].id, Wrote(req, "create"))
    ELSE IF req.op = "update" /\ res.status = StatusOk
         THEN Put(w, req.path.uuid, Wrote(req, "update"))
    ELSE IF req.op = "delete" /\ res.status = StatusNoContent
         THEN Put(w, req.path.uuid, Gone)
    ELSE w

Created(req, res) == res.done /\ req.op = "create" /\ res.status = StatusCreated
Deleted(req, res) == res.done /\ req.op = "delete" /\ res.status = StatusNoContent

----------------------------------------------------------------------------
(* One request at a time: the client sends a request, the handler serves   *)
(* it from its arrival to its response in one step, and the client takes   *)
(* the response (or sees the connection close) before it sends the next.   *)

NoRequest == Request("none", "none", NoParam, NoBody)

Exchange(req, res, fault) ==
    [req |-> req, fault |-> IF res.queried THEN fault ELSE "none",
     done |-> res.done, status |-> res.status, out |-> res.out]

NoExchange ==
    [req |-> NoRequest, fault |-> "none", done |-> FALSE, status |-> 0, out |-> <<>>]

Init ==
    /\ table = {}
    /\ last = NoExchange
    /\ written = [i \in {} |-> Gone]
    /\ nLive = 0
    /\ clients = <<>>
    /\ inUse = 0

\* What serving `req` on the table may lead to: the table after it and
\* the exchange the client sees.
Served(req) ==
    {[table |-> Route(req, env, table).table,
      last |-> Exchange(req, Route(req, env, table), env.fault)] :
        env \in Envs(req, table)}

\* The client awaits the response and keeps what it tells.
Receive ==
    /\ last # NoExchange
    /\ written' = ObserveWritten(written, last.req, last)
    /\ nLive' = nLive + (IF Created(last.req, last) THEN 1 ELSE 0)
                      - (IF Deleted(last.req, last) THEN 1 ELSE 0)
    /\ last' = NoExchange
    /\ UNCHANGED <<table, clients, inUse>>

RestCreate ==
    /\ last = NoExchange
    /\ \E b \in Bodies :
        \E x \in Served(Request("rest", "create", NoParam, b)) :
            table' = x.table /\ last' = x.last
    /\ UNCHANGED <<written, nLive, clients, inUse>>

RestList ==
    /\ last = NoExchange
    /\ \E x \in Served(Request("rest", "list", NoParam, NoBody)) :
        table' = x.table /\ last' = x.last
    /\ UNCHANGED <<written, nLive, clients, inUse>>

RestGet ==
    /\ last = NoExchange
    /\ \E p \in PathParams :
        \E x \in Served(Request("rest", "get", p, NoBody)) :
            table' = x.table /\ last' = x.last
    /\ UNCHANGED <<written, nLive, clients, inUse>>

RestUpdate ==
    /\ last = NoExchange
    /\ \E p \in PathParams, b \in Bodies :
        \E x \in Served(Request("rest", "update", p, b)) :
            table' = x.table /\ last' = x.last
    /\ UNCHANGED <<written, nLive, clients, inUse>>

RestDelete ==
    /\ last = NoExchange
    /\ \E p \in PathParams :
        \E x \in Served(Request("rest", "delete", p, NoBody)) :
            table' = x.table /\ last' = x.last
    /\ UNCHANGED <<written, nLive, clients, inUse>>


CtlCreate ==
    /\ last = NoExchange
    /\ \E b \in Bodies :
        \E x \in Served(Request("ctl", "create", NoParam, b)) :
            table' = x.table /\ last' = x.last
    /\ UNCHANGED <<written, nLive, clients, inUse>>

CtlList ==
    /\ last = NoExchange
    /\ \E x \in Served(Request("ctl", "list", NoParam, NoBody)) :
        table' = x.table /\ last' = x.last
    /\ UNCHANGED <<written, nLive, clients, inUse>>

CtlGet ==
    /\ last = NoExchange
    /\ \E p \in PathParams :
        \E x \in Served(Request("ctl", "get", p, NoBody)) :
            table' = x.table /\ last' = x.last
    /\ UNCHANGED <<written, nLive, clients, inUse>>

CtlUpdate ==
    /\ last = NoExchange
    /\ \E p \in PathParams, b \in Bodies :
        \E x \in Served(Request("ctl", "update", p, b)) :
            table' = x.table /\ last' = x.last
    /\ UNCHANGED <<written, nLive, clients, inUse>>

CtlDelete ==
    /\ last = NoExchange
    /\ \E p \in PathParams :
        \E x \in Served(Request("ctl", "delete", p, NoBody)) :
            table' = x.table /\ last' = x.last
    /\ UNCHANGED <<written, nLive, clients, inUse>>

Next ==
    \/ RestCreate
    \/ RestList
    \/ RestGet
    \/ RestUpdate
    \/ RestDelete
    \/ CtlCreate
    \/ CtlList
    \/ CtlGet
    \/ CtlUpdate
    \/ CtlDelete
    \/ Receive

Spec == Init /\ [][Next]_vars

----------------------------------------------------------------------------
(* Concurrent requests.  Every request is a task of its own: it parses,    *)
(* takes a connection of the pool for its one statement (suspending while  *)
(* the pool has none to give), the statement runs as one step of the       *)
(* store, and the connection goes back to the pool as the query future     *)
(* ends, with a row or with an error.                                      *)

Idle == [pc |-> "idle", tries |-> 0, x |-> NoExchange]

\* The table the server is started on (the tests insert a row first).
StartTable == {[id |-> 1, name |-> "Rex", weight |-> 500, diet |-> "carnivorous"]}

\* Whether the handler gets as far as its statement: the body and the path
\* identifier are parsed before the query is built.
ReachesStore(req) ==
    Route(req, [fault |-> "none", gen |-> 0, order |-> <<>>], {}).queried

\* A release that forgets the connection when the statement failed.
Release_LeakOnError(n, res) ==
    IF res.status \in {StatusInternal, StatusConflict} THEN n ELSE n - 1

\* The query future ends and drops its connection: back to the pool.
Release(n, res) == n - 1

Pending(req) == [NoExchange EXCEPT !.req = req]

\* Requests are numbered in the order they arrive.
Arrive(c, req) ==
    /\ clients[c].pc = "idle"
    /\ \A d \in DOMAIN clients : d < c => clients[d].pc # "idle"
    /\ IF ~ReachesStore(req)
       THEN /\ clients' = [clients EXCEPT ![c] =
                    [pc |-> "done", tries |-> 0,
                     x |-> Exchange(req, Route(req,
                            [fault |-> "none", gen |-> 0, order |-> <<>>], {}), "none")]]
            /\ UNCHANGED inUse
       ELSE IF inUse < MaxConnections
       THEN /\ clients' = [clients EXCEPT ![c] =
                    [pc |-> "holding", tries |-> 1, x |-> Pending(req)]]
            /\ inUse' = inUse + 1
       ELSE /\ clients' = [clients EXCEPT ![c] =
                    [pc |-> "waiting", tries |-> 0, x |-> Pending(req)]]
            /\ UNCHANGED inUse
    /\ UNCHANGED <<table, last, written, nLive>>

\* A suspended acquire gets a connection another request released.
Acquire(c) ==
    /\ clients[c].pc = "waiting"
    /\ inUse < MaxConnections
    /\ clients' = [clients EXCEPT ![c].pc = "holding", ![c].tries = @ + 1]
    /\ inUse' = inUse + 1
    /\ UNCHANGED <<table, last, written, nLive>>

\* The statement runs and the handler returns its response.
Complete(c) ==
    /\ clients[c].pc = "holding"
    /\ \E env \in Envs(clients[c].x.req, table) :
        LET res == Route(clients[c].x.req, env, table) IN
        /\ table' = res.table
        /\ clients' = [clients EXCEPT ![c].pc = "done",
                                      ![c].x = Exchange(clients[c].x.req, res, env.fault)]
        /\ inUse' = Release(inUse, res)
    /\ UNCHANGED <<last, written, nLive>>

\* The payload the concurrent creates and updates send.
Rex2 == [name |-> "Rex2", weight |-> 70, diet |-> "carnivorous"]

\* Creates, and gets, updates and deletes of the same and of distinct
\* identifiers.
ConcRequests ==
    UNION {{Request(impl, "create", NoParam, JsonObject(Fields, 1, Rex2)),
            Request(impl, "get", [valid |-> TRUE, uuid |-> i], NoBody),
            Request(impl, "update", [valid |-> TRUE, uuid |-> i],
                    JsonObject(Fields, 1, Rex2)),
            Request(impl, "delete", [valid |-> TRUE, uuid |-> i], NoBody)} :
                impl \in {"rest", "ctl"}, i \in Ids}

\* Requests that end with a row, with an error of the store, or before
\* any statement.
PoolRequests ==
    {Request("rest", "get", [valid |-> TRUE, uuid |-> 1], NoBody),
     Request("rest", "get", [valid |-> FALSE, uuid |-> 0], NoBody)}

InitClients(n) ==
    /\ table = StartTable
    /\ last = NoExchange
    /\ written = [i \in {} |-> Gone]
    /\ nLive = 0
    /\ clients = [c \in 1..n |-> Idle]
    /\ inUse = 0

(* Fewer requests than connections: none ever waits. *)
InitConc == InitClients(NumClients)

ArriveConc == \E c \in DOMAIN clients : \E req \in ConcRequests : Arrive(c, req)
CompleteAny == \E c \in DOMAIN clients : Complete(c)
AcquireAny == \E c \in DOMAIN clients : Acquire(c)

NextConc ==
    \/ ArriveConc
    \/ CompleteAny

SpecConc == InitConc /\ [][NextConc]_vars

(* More requests than connections. *)
InitPool == InitClients(MaxConnections + ExtraClients)

ArrivePool == \E c \in DOMAIN clients : \E req \in PoolRequests : Arrive(c, req)

NextPool ==
    \/ ArrivePool
    \/ AcquireAny
    \/ CompleteAny

\* The executor runs a task that can run (a released connection wakes a
\* suspended acquire), and the store ends a statement it was sent.
SpecPool ==
    /\ InitPool
    /\ [][NextPool]_vars
    /\ WF_vars(AcquireAny)
    /\ WF_vars(CompleteAny)

----------------------------------------------------------------------------
(* Properties of the handlers, one request at a time (Spec).  They are     *)
(* stated on the exchange in flight: `table` is then the table after the   *)
(* request, `written` and `nLive` what the client knew before it.          *)

InFlight == last # NoExchange

\* The members a body must hold to deserialize: AnimalRequest for
\* RestEntity, Animal for the controllers.
RequiredMembers(impl) == IF impl = "rest" THEN {"name", "weight", "diet"} ELSE Fields

ValidBodyFor(req) == req.body.json /\ RequiredMembers(req.impl) \subseteq req.body.has

\* The row the client expects under identifier i.
ExpectedRow(i) ==
    [id |-> i, name |-> written[i].name, weight |-> written[i].weight,
     diet |-> written[i].diet]

\* The row a body writes under identifier i.
BodyRow(i, body) ==
    [id |-> i, name |-> body.name, weight |-> body.weight, diet |-> body.diet]

\* The statement of the request in flight ran: the store did not fail.
StoreAnswered == last.fault = "none"

\* C1: a create answered 201 returns a row holding the payload, and a get
\* of the identifier of that row, with no update or delete of it in
\* between, is answered 200 with the same row (provided the store answers).
C1_CreateThenGet ==
    /\ (last.req.op = "create" /\ last.done /\ last.status = 201) =>
            /\ Len(last.out) = 1
            /\ last.out[1] = BodyRow(last.out[1].id, last.req.body)
            /\ last.out[1] \in table
    /\ \A i \in DOMAIN written :
        (/\ last.req.op = "get"
         /\ last.req.path = [valid |-> TRUE, uuid |-> i]
         /\ written[i].by = "create"
         /\ StoreAnswered)
        => /\ last.done
           /\ last.status = 200
           /\ last.out = <<ExpectedRow(i)>>

C1_Witness ==
    /\ last.req.op = "get"
    /\ last.req.path.valid
    /\ last.req.path.uuid \in DOMAIN written
    /\ written[last.req.path.uuid].by = "create"
    /\ StoreAnswered
    /\ last.status = 200

\* C2: get, update with a body that deserializes, and delete of a
\* well-formed identifier that was never created or is already deleted are
\* each answered 404 (provided the store answers).
C2_AbsentIs404 ==
    (/\ last.req.op \in {"get", "update", "delete"}
     /\ last.req.path.valid
     /\ last.req.path.uuid \notin Live(written)
     /\ last.req.op = "update" => ValidBodyFor(last.req)
     /\ StoreAnswered)
    => last.done /\ last.status = 404

C2_Witness ==
    /\ last.req.op = "update"
    /\ ValidBodyFor(last.req)
    /\ last.req.path.valid
    /\ last.req.path.uuid \in DOMAIN written
    /\ written[last.req.path.uuid].by = "delete"
    /\ table # {}
    /\ StoreAnswered
    /\ last.status = 404

\* C3: a delete of an existing identifier is answered 204 and removes that
\* row and no other; a delete of an identifier already deleted is answered
\* 404 and leaves the table as it was.
C3_DeleteOnce ==
    [][(/\ last'.req.op = "delete"
        /\ last'.req.path.valid
        /\ last'.fault = "none")
       => LET i == last'.req.path.uuid IN
          IF i \in Live(written)
          THEN /\ last'.done /\ last'.status = 204
               /\ table' = {r \in table : r.id # i}
               /\ i \in TableIds(table)
          ELSE /\ last'.done /\ last'.status = 404
               /\ table' = table]_vars

C3_Witness ==
    /\ last.req.op = "delete"
    /\ last.req.path.valid
    /\ last.req.path.uuid \in DOMAIN written
    /\ written[last.req.path.uuid].by = "delete"
    /\ table # {}
    /\ StoreAnswered
    /\ last.status = 404

\* C4: list is answered 200 with exactly one row per identifier created
\* and not deleted, N - M of them, each as last written by create or update
\* (provided the store answers); on an empty table the sequence is empty.
C4_ListLive ==
    (last.req.op = "list" /\ StoreAnswered)
    => /\ last.done
       /\ last.status = 200
       /\ Len(last.out) = nLive
       /\ Cardinality(Live(written)) = nLive
       /\ {last.out[k] : k \in 1..Len(last.out)} = {ExpectedRow(i) : i \in Live(written)}
       /\ table = {} => last.out = <<>>

C4_Witness ==
    /\ last.req.op = "list"
    /\ StoreAnswered
    /\ Len(last.out) = 1
    /\ \E i \in DOMAIN written : written[i].by = "delete"
    /\ \E i \in DOMAIN written : written[i].by = "update"

\* C5: an update of an existing identifier is answered 200 with the row of
\* the path identifier holding the body's name, weight and diet, changes
\* that row only, whatever identifier the body holds; and no request but a
\* create or a delete changes the set of identifiers of the table.
C5_UpdateKeepsId ==
    [][/\ (/\ last'.req.op = "update"
           /\ last'.req.path.valid
           /\ ValidBodyFor(last'.req)
           /\ last'.fault = "none"
           /\ last'.req.path.uuid \in Live(written))
          => LET i == last'.req.path.uuid IN
             /\ last'.done /\ last'.status = 200
             /\ last'.out = <<BodyRow(i, last'.req.body)>>
             /\ table' = {r \in table : r.id # i} \cup {BodyRow(i, last'.req.body)}
       /\ last'.req.op \notin {"create", "delete"}
          => TableIds(table') = TableIds(table)]_vars

C5_Witness ==
    /\ last.req.op = "update"
    /\ last.status = 200
    /\ "id" \in last.req.body.has
    /\ last.req.body.id # last.req.path.uuid
    /\ Cardinality(table) >= 2

\* C6: where the body carries the identifier (the controllers), a create
\* whose identifier is the one of a row in place is answered 409 and leaves
\* the table as it was; a create with an identifier not in use is answered
\* 201 (provided the store answers).
C6_DuplicateIs409 ==
    [][(/\ last'.req.impl = "ctl"
        /\ last'.req.op = "create"
        /\ ValidBodyFor(last'.req)
        /\ last'.fault = "none")
       => IF last'.req.body.id \in Live(written)
          THEN last'.done /\ last'.status = 409 /\ table' = table
          ELSE last'.done /\ last'.status = 201]_vars

C6_Witness ==
    /\ last.req.impl = "ctl"
    /\ last.req.op = "create"
    /\ StoreAnswered
    /\ last.status = 409
    /\ table # {}

\* C7: every request with a malformed path identifier or a body that is no
\* JSON or lacks name, weight or diet is answered 400.
C7_MalformedIs400 ==
    (/\ InFlight
     /\ \/ last.req.op \in {"get", "update", "delete"} /\ ~last.req.path.valid
        \/ /\ last.req.op \in {"create", "update"}
           /\ ~(last.req.body.json /\ {"name", "weight", "diet"} \subseteq last.req.body.has))
    => last.done /\ last.status = 400

\* C8: a failure of the store that is no constraint violation is answered
\* 500, a 409 comes only from a constraint violation, and a request whose
\* statement was sent gets no status outside 200, 201, 204, 400, 404, 409,
\* 500.
C8_StoreFailureIs500 ==
    /\ last.fault \in {"unavailable", "internal"} => last.done /\ last.status = 500
    /\ (last.done /\ last.status = 409) => last.fault = "none"
    /\ (InFlight /\ ReachesStore(last.req))
         => last.done /\ last.status \in {200, 201, 204, 400, 404, 409, 500}

----------------------------------------------------------------------------
(* Properties of concurrent requests (SpecConc, SpecPool). *)

Finished(c) == clients[c].pc = "done"

\* The requests that ended with `status` for operation `op`.
Answered(op, status) ==
    {c \in DOMAIN clients :
        Finished(c) /\ clients[c].x.done /\ clients[c].x.req.op = op
        /\ clients[c].x.status = status}

Deleted204(i) == {c \in Answered("delete", 204) : clients[c].x.req.path.uuid = i}
Created201(i) == {c \in Answered("create", 201) : clients[c].x.out[1].id = i}

\* The deletes of i whose statement ran.
DeletesRun(i) ==
    {c \in DOMAIN clients :
        /\ Finished(c)
        /\ clients[c].x.req.op = "delete"
        /\ clients[c].x.req.path = [valid |-> TRUE, uuid |-> i]
        /\ clients[c].x.fault = "none"}

Count(b) == IF b THEN 1 ELSE 0

\* The requests whose statement has run.
Ran == {c \in DOMAIN clients : Finished(c) /\ ReachesStore(clients[c].x.req)}

\* What the store did for the exchange x, read off its response.
EnvOf(x) ==
    [fault |-> x.fault,
     gen |-> IF x.req.impl = "rest" /\ x.req.op = "create" /\ x.status = 201
             THEN x.out[1].id ELSE 0,
     order |-> <<>>]

\* The requests of `order` served one after the other from table tbl, each
\* with the response it got: whether that can be, and the table it leaves.
RECURSIVE Replay(_, _)
Replay(order, tbl) ==
    IF order = <<>> THEN [ok |-> TRUE, table |-> tbl]
    ELSE LET x == clients[Head(order)].x
             res == Route(x.req, EnvOf(x), tbl)
         IN IF /\ EnvOf(x).gen \notin TableIds(tbl)
               /\ Exchange(x.req, res, x.fault) = x
            THEN Replay(Tail(order), res.table)
            ELSE [ok |-> FALSE, table |-> tbl]

SerialOrders(S) ==
    {o \in [1..Cardinality(S) -> S] : \A i, j \in 1..Cardinality(S) : i # j => o[i] # o[j]}

Serializable ==
    \E o \in SerialOrders(Ran) :
        LET r == Replay(o, StartTable) IN r.ok /\ r.table = table

\* C9: whatever the interleaving, the responses given so far and the table
\* are those of the same requests served one after the other in some
\* order; every 204 of a delete took one
\* row that the start table or a 201 of a create put there, so of several
\* deletes of one existing identifier one is answered 204 and the others
\* 404, and no row is left under an identifier whose delete was answered
\* 204, unless a create put it back; an update is answered 200 with the row
\* it wrote, or 404.
C9_StatementsAtomic ==
    /\ Serializable
    /\ \A i \in Ids :
        /\ Cardinality(Deleted204(i)) + Count(i \in TableIds(table))
             = Count(i \in TableIds(StartTable)) + Cardinality(Created201(i))
        /\ (DeletesRun(i) # {} /\ Created201(i) = {})
             => /\ i \notin TableIds(table)
                /\ Cardinality(Deleted204(i)) = Count(i \in TableIds(StartTable))
        /\ \A c \in DeletesRun(i) : clients[c].x.done /\ clients[c].x.status \in {204, 404}
    /\ \A c \in DOMAIN clients :
        (Finished(c) /\ clients[c].x.req.op = "update" /\ clients[c].x.fault = "none")
        => /\ clients[c].x.done
           /\ \/ clients[c].x.status = 404 /\ clients[c].x.out = <<>>
              \/ /\ clients[c].x.status = 200
                 /\ clients[c].x.out
                      = <<BodyRow(clients[c].x.req.path.uuid, clients[c].x.req.body)>>

C9_Witness ==
    /\ \E c, d \in DeletesRun(1) :
        clients[c].x.status = 204 /\ clients[d].x.status = 404
    /\ Created201(1) = {}

\* C10: never more than max_connections connections are checked out; a
\* request holds one exactly while its statement is under way, and none
\* once it has finished, with a row or with an error; it sends its
\* statement once; and whenever requests wait for a connection or hold
\* one, all of them finish (a finished request is never waiting again).
PoolSafe ==
    /\ inUse <= MaxConnections
    /\ inUse = Cardinality({c \in DOMAIN clients : clients[c].pc = "holding"})
    /\ \A c \in DOMAIN clients :
        /\ clients[c].tries <= 1
        /\ (Finished(c) /\ ReachesStore(clients[c].x.req)) => clients[c].tries = 1

Busy(c) == clients[c].pc \in {"waiting", "holding"}

====
